---- MODULE Spec2Model ----
(***************************************************************************)
(* A model of the homotopy library (src/src/lib.rs): homotopy values are   *)
(* terms, the trait methods f, g and h are evaluators over the terms, and  *)
(* a caller builds a term, evaluates it and runs the contract checkers.    *)
(*                                                                         *)
(* Numbers.  The library computes in f64 and its checkers compare with     *)
(* exact ==, so rounding is part of the behaviour.  An f64 is modelled as  *)
(* a binary floating-point number of the same kind with a shorter          *)
(* significand: an integer v stands for v / Scale, it carries at most      *)
(* MantBits significant bits, and every arithmetic result is rounded to    *)
(* the nearest such number, ties to even.  Infinities and NaN are left     *)
(* out: every input is finite and no result overflows.                     *)
(***************************************************************************)
EXTENDS Integers, Sequences, FiniteSets, TLC

\* Significant bits of the modelled float (f64 has 53).
MantBits == 8
\* Fraction bits of the grid: the smallest positive float is 2^-FracBits.
FracBits == 10
\* How many combinators may be stacked on a product or primitive.
MaxWraps == 2

RECURSIVE Pow2(_)
Pow2(n) == IF n = 0 THEN 1 ELSE 2 * Pow2(n - 1)

Scale == Pow2(FracBits)
MantLimit == Pow2(MantBits)

Abs(n) == IF n < 0 THEN -n ELSE n

\* The spacing of the floats around q / d: the least power of two u with
\* q / (d * u) < 2^MantBits.
RECURSIVE Ulp(_, _, _)
Ulp(q, d, u) == IF q \div (d * u) < MantLimit THEN u ELSE Ulp(q, d, 2 * u)

\* q / d rounded to an integer, ties to the even one (q >= 0, d > 0).
RoundHalfEven(q, d) ==
    LET fl == q \div d
        rem == q % d
    IN  IF 2 * rem < d THEN fl
        ELSE IF 2 * rem > d THEN fl + 1
        ELSE IF fl % 2 = 0 THEN fl ELSE fl + 1

\* The float nearest to n / d grid units (d > 0).
Rnd(n, d) ==
    LET q == Abs(n)
        u == Ulp(q, d, 1)
    IN  (IF n < 0 THEN -1 ELSE 1) * u * RoundHalfEven(q, d * u)

\* f64 arithmetic: the exact result, rounded.
Add(a, b) == Rnd(a + b, 1)
Sub(a, b) == Rnd(a - b, 1)
Mul(a, b) == Rnd(a * b, Scale)

\* The float of the integer n (exact for the small n used here).
R(n) == n * Scale
Zero == 0
One == Scale
Half == Scale \div 2
Quarter == Scale \div 4
ThreeQuarters == 3 * Quarter
\* The smallest positive float: "however close to 0".
Tiny == 1
\* The float nearest to 0.2, which is not a binary fraction.
Fifth == Rnd(Scale, 5)

(***************************************************************************)
(* Values.  An f64 is an integer (above); the other input and output       *)
(* types are records, so that a tuple (a, b) and an array [a, b] with the  *)
(* same components are different values.                                   *)
(***************************************************************************)
Unit == [kind |-> "unit", items |-> <<>>]
Tuple(q) == [kind |-> "tuple", items |-> q]
Array(q) == [kind |-> "array", items |-> q]

\* The types of the values, for the trait's X, Scalar and Y parameters.
TScalar == [kind |-> "f64", items |-> <<>>]
TUnit == [kind |-> "unit", items |-> <<>>]
TTuple(ts) == [kind |-> "tuple", items |-> ts]
TArray(ts) == [kind |-> "array", items |-> ts]

\* Sample inputs of type f64.
XVals == {R(0), R(1)}

\* The sample values of each type: the inputs a caller may pass.
RECURSIVE Dom(_)
RECURSIVE DomSeq(_)
Dom(t) ==
    IF t.kind = "f64" THEN XVals
    ELSE IF t.kind = "unit" THEN {Unit}
    ELSE {[kind |-> t.kind, items |-> q] : q \in DomSeq(t.items)}
DomSeq(ts) ==
    IF ts = <<>> THEN {<<>>}
    ELSE {<<v>> \o q : v \in Dom(Head(ts)), q \in DomSeq(Tail(ts))}

\* Closures the callers pass (the ones of the library's own tests and of sweep).
Call(fun, x) ==
    CASE fun = "one" -> R(1)
      [] fun = "zero" -> R(0)
      [] fun = "sub2" -> Sub(x, R(2))
      [] fun = "add2" -> Add(x, R(2))

\* The closures a caller passes to smap.  "sweep" is the one of sweep:
\* |(a, b), s| [a[0] + (b[0] - a[0]) * s, a[1] + (b[1] - a[1]) * s]
\* "blend" is a caller's own, on a tuple of numbers: the first component moved
\* towards the last by s.
Call2(fun, v, s) ==
    CASE fun = "sweep" ->
        LET a == v.items[1].items
            b == v.items[2].items
        IN  Array(<<Add(a[1], Mul(Sub(b[1], a[1]), s)),
                    Add(a[2], Mul(Sub(b[2], a[2]), s))>>)
      [] fun = "blend" ->
        LET a == v.items[1]
            b == v.items[Len(v.items)]
        IN  Add(a, Mul(Sub(b, a), s))

\* The closures of smap, and the type Y1 of the first argument of each.
Transforms == {"sweep", "blend"}
Accepts(fun, t) ==
    CASE fun = "sweep" -> t = TTuple(<<TArray(<<TScalar, TScalar>>), TArray(<<TScalar, TScalar>>)>>)
      [] fun = "blend" ->
            /\ t.kind = "tuple"
            /\ \A i \in 1..Len(t.items) : t.items[i] = TScalar

(***************************************************************************)
(* Homotopy values: one record shape per struct of the library.  A tuple   *)
(* struct's fields self.0, self.1, ... are p0, p1, ... (points) or inner   *)
(* (a wrapped homotopy).                                                   *)
(***************************************************************************)
Id == [tag |-> "Id"]
Dirac == [tag |-> "Dirac"]
DiracFrom(fx, gx) == [tag |-> "DiracFrom", fx |-> fx, gx |-> gx]
Lerp(a, b) == [tag |-> "Lerp", p0 |-> a, p1 |-> b]
QuadraticBezier(a, b, c) == [tag |-> "QuadraticBezier", p0 |-> a, p1 |-> b, p2 |-> c]
CubicBezier(a, b, c, d) ==
    [tag |-> "CubicBezier", p0 |-> a, p1 |-> b, p2 |-> c, p3 |-> d]
Circle(center, radius) == [tag |-> "Circle", center |-> center, radius |-> radius]
\* Translate<f64> has n = 0 and a number d; Translate<[f64; n]> a sequence d.
Translate(n, d) == [tag |-> "Translate", n |-> n, d |-> d]
Square(h1, h2) == [tag |-> "Square", h1 |-> h1, h2 |-> h2]
Cube(h1, h2, h3) == [tag |-> "Cube", h1 |-> h1, h2 |-> h2, h3 |-> h3]
Cube4(h1, h2, h3, h4) == [tag |-> "Cube4", h1 |-> h1, h2 |-> h2, h3 |-> h3, h4 |-> h4]
Inverse(t) == [tag |-> "Inverse", inner |-> t]
AsVec(t) == [tag |-> "AsVec", inner |-> t]
SMap(hm, fun) == [tag |-> "SMap", hom |-> hm, fun |-> fun]
\* A caller's own implementation of the trait for X = (), Y = f64: f is f0, g is
\* g0, and h runs linearly from h0 to h1.  Nothing makes h0 = f0 or h1 = g0.
Impl(f0, g0, h0, h1) == [tag |-> "Impl", f0 |-> f0, g0 |-> g0, h0 |-> h0, h1 |-> h1]
\* The structs of the modules sides and compose.
Diagonal(t) == [tag |-> "Diagonal", inner |-> t]
\* Every side method returning the side opposite to the one it is named after.
Side_opposite(name, t) ==
    [tag |-> CASE name = "Left" -> "Right" [] name = "Right" -> "Left"
               [] name = "Top" -> "Bottom" [] name = "Bottom" -> "Top"
               [] name = "Front" -> "Back" [] name = "Back" -> "Front"
               [] name = "Past" -> "Future" [] name = "Future" -> "Past",
     inner |-> t]
\* Every side method returning the left side.
Side_left(name, t) == [tag |-> "Left", inner |-> t]
Side(name, t) == [tag |-> name, inner |-> t]
Slice(name, t, p) == [tag |-> name, inner |-> t, pin |-> p]
Compose(a, b) == [tag |-> "Compose", a |-> a, b |-> b]

\* from_linear with the start point as the control point.
from_linear_start(a, b) == QuadraticBezier(a, a, b)

\* QuadraticBezier::from_linear
from_linear(a, b) == QuadraticBezier(a, Add(Mul(a, Half), Mul(b, Half)), b)

\* CubicBezier::from_quadratic
from_quadratic(a, b, c) == CubicBezier(a, b, b, c)

SideNames == <<"Left", "Right", "Top", "Bottom", "Front", "Back", "Past", "Future">>
SliceNames == <<"LeftRight", "TopBottom", "FrontBack", "PastFuture">>
IsSide(hm) == \E i \in 1..Len(SideNames) : hm.tag = SideNames[i]
IsSlice(hm) == \E i \in 1..Len(SliceNames) : hm.tag = SliceNames[i]

\* The axis (1-based) a side or slice pins, and the value it pins it to.
PinAxis(hm) ==
    CASE hm.tag \in {"Left", "Right", "LeftRight"} -> 1
      [] hm.tag \in {"Top", "Bottom", "TopBottom"} -> 2
      [] hm.tag \in {"Front", "Back", "FrontBack"} -> 3
      [] hm.tag \in {"Past", "Future", "PastFuture"} -> 4
PinValue(hm) ==
    CASE hm.tag \in {"Left", "Top", "Front", "Past"} -> Zero
      [] hm.tag \in {"Right", "Bottom", "Back", "Future"} -> One
      [] OTHER -> hm.pin

\* The number of axes of the parameter: 1 is a scalar (f64), N > 1 is [f64; N].
RECURSIVE Dim(_)
Dim(hm) ==
    CASE hm.tag = "Square" -> 2
      [] hm.tag = "Cube" -> 3
      [] hm.tag = "Cube4" -> 4
      [] hm.tag = "AsVec" -> Dim(hm.inner)
      [] hm.tag = "SMap" -> Dim(hm.hom) + 1
      [] hm.tag = "Compose" -> Dim(hm.a) + Dim(hm.b)
      [] IsSide(hm) \/ IsSlice(hm) -> Dim(hm.inner) - 1
      [] OTHER -> 1

\* The input type X and the output type Y of a homotopy value.
RECURSIVE XType(_)
XType(hm) ==
    CASE hm.tag = "Id" -> TScalar
      [] hm.tag = "DiracFrom" -> IF hm.fx \in {"one", "zero"} THEN TUnit ELSE TScalar
      [] hm.tag = "Translate" ->
            IF hm.n = 0 THEN TScalar ELSE TArray([i \in 1..hm.n |-> TScalar])
      [] hm.tag = "Square" -> TTuple(<<XType(hm.h1), XType(hm.h2)>>)
      [] hm.tag = "Cube" -> TTuple(<<XType(hm.h1), XType(hm.h2), XType(hm.h3)>>)
      [] hm.tag = "Cube4" ->
            TTuple(<<XType(hm.h1), XType(hm.h2), XType(hm.h3), XType(hm.h4)>>)
      [] hm.tag = "AsVec" -> TArray(XType(hm.inner).items)
      [] hm.tag = "SMap" -> XType(hm.hom)
      [] hm.tag = "Compose" -> XType(hm.a)
      [] hm.tag = "Inverse" \/ hm.tag = "Diagonal" \/ IsSide(hm) \/ IsSlice(hm) ->
            XType(hm.inner)
      [] OTHER -> TUnit

RECURSIVE YType(_)
YType(hm) ==
    CASE hm.tag = "Circle" -> TArray(<<TScalar, TScalar>>)
      [] hm.tag = "Translate" ->
            IF hm.n = 0 THEN TScalar ELSE TArray([i \in 1..hm.n |-> TScalar])
      [] hm.tag = "Square" -> TTuple(<<YType(hm.h1), YType(hm.h2)>>)
      [] hm.tag = "Cube" -> TTuple(<<YType(hm.h1), YType(hm.h2), YType(hm.h3)>>)
      [] hm.tag = "Cube4" ->
            TTuple(<<YType(hm.h1), YType(hm.h2), YType(hm.h3), YType(hm.h4)>>)
      [] hm.tag = "AsVec" -> TArray(YType(hm.inner).items)
      [] hm.tag = "SMap" ->
            IF hm.fun = "sweep" THEN TArray(<<TScalar, TScalar>>) ELSE TScalar
      [] hm.tag = "Compose" -> YType(hm.b)
      [] hm.tag = "Inverse" \/ hm.tag = "Diagonal" \/ IsSide(hm) \/ IsSlice(hm) ->
            YType(hm.inner)
      [] OTHER -> TScalar

(***************************************************************************)
(* std's cos and sin of the angle s * PI * 2.0, tabulated.  PI is a        *)
(* rounded constant, so only the angle 0 is exact: at the other quarter    *)
(* turns the f64 results are off by a rounding residue (cos gives 6.1e-17  *)
(* at s = 0.25 and -1.8e-16 at 0.75, sin 1.2e-16 at 0.5 and -2.4e-16 at    *)
(* 1.0), here one grid unit of that sign.  Between the quarter turns the   *)
(* value is the one at the nearest tabulated angle (0.2, 0.3, 0.7 or 0.8   *)
(* of a turn), and near 0 the small-angle value.                           *)
(***************************************************************************)
Cos72 == Rnd(30902 * Scale, 100000)
Sin72 == Rnd(95106 * Scale, 100000)
SmallAngle == Scale \div 16

CosTurn(s) ==
    CASE s = Zero -> One
      [] s = Quarter -> Tiny
      [] s = Half -> -One
      [] s = ThreeQuarters -> -Tiny
      [] s = One -> One
      [] OTHER ->
            IF s < SmallAngle \/ s > One - SmallAngle THEN One
            ELSE IF s < Quarter \/ s > ThreeQuarters THEN Cos72 ELSE -Cos72

SinTurn(s) ==
    CASE s = Zero -> Zero
      [] s = Quarter -> One
      [] s = Half -> Tiny
      [] s = ThreeQuarters -> -One
      [] s = One -> -Tiny
      [] OTHER ->
            IF s < SmallAngle THEN Rnd(6283 * s, 1000)
            ELSE IF s > One - SmallAngle THEN -Rnd(6283 * (One - s), 1000)
            ELSE IF s < Half THEN Sin72 ELSE -Sin72

(***************************************************************************)
(* The trait Homotopy: f, g and h of every implementation.  A scalar       *)
(* parameter is a number, a parameter [f64; N] a sequence of N numbers.    *)
(***************************************************************************)
RECURSIVE f(_, _)
RECURSIVE g(_, _)
RECURSIVE h(_, _, _)

Id_f(self, x) == x
Id_g(self, x) == x
Id_h(self, x, s) == x

Dirac_f(self, x) == R(1)
Dirac_g(self, x) == R(0)
Dirac_h(self, x, s) == IF s = Zero THEN R(1) ELSE R(0)

\* DiracFrom::h comparing s with 0.0 up to the smallest positive float.
DiracFrom_h_near(self, x, s) ==
    IF Abs(s) <= Tiny THEN Call(self.fx, x) ELSE Call(self.gx, x)

DiracFrom_f(self, x) == Call(self.fx, x)
DiracFrom_g(self, x) == Call(self.gx, x)
DiracFrom_h(self, x, s) == IF s = Zero THEN Call(self.fx, x) ELSE Call(self.gx, x)

\* Lerp::h jumping to the end point as soon as the parameter leaves 0.
Lerp_h_step(self, x, s) == IF s = Zero THEN self.p0 ELSE self.p1

Lerp_f(self, x) == self.p0
Lerp_g(self, x) == self.p1
Lerp_h(self, x, s) == Add(Mul(self.p0, Sub(One, s)), Mul(self.p1, s))

QuadraticBezier_f(self, x) == self.p0
QuadraticBezier_g(self, x) == self.p2
QuadraticBezier_h(self, x, s) ==
    LET a == Lerp_h(Lerp(self.p0, self.p1), Unit, s)
        b == Lerp_h(Lerp(self.p1, self.p2), Unit, s)
    IN  Lerp_h(Lerp(a, b), Unit, s)

CubicBezier_f(self, x) == self.p0
CubicBezier_g(self, x) == self.p3
CubicBezier_h(self, x, s) ==
    LET a == Lerp_h(Lerp(self.p0, self.p1), Unit, s)
        b == Lerp_h(Lerp(self.p2, self.p3), Unit, s)
    IN  Lerp_h(Lerp(a, b), Unit, s)

\* Circle::h without the branch for s == 1.0: the trigonometric formula there.
Circle_h_trig(self, x, s) ==
    IF s = Half THEN Array(<<Sub(self.center[1], self.radius), self.center[2]>>)
    ELSE IF s = Quarter THEN Array(<<self.center[1], Add(self.center[2], self.radius)>>)
    ELSE IF s = ThreeQuarters
        THEN Array(<<self.center[1], Sub(self.center[2], self.radius)>>)
    ELSE Array(<<Add(self.center[1], Mul(self.radius, CosTurn(s))),
                 Add(self.center[2], Mul(self.radius, SinTurn(s)))>>)

\* Circle::h without the branch for s == 0.25.
Circle_h_no_quarter(self, x, s) ==
    IF s = One THEN Array(<<Add(self.center[1], self.radius), self.center[2]>>)
    ELSE IF s = Half THEN Array(<<Sub(self.center[1], self.radius), self.center[2]>>)
    ELSE IF s = ThreeQuarters
        THEN Array(<<self.center[1], Sub(self.center[2], self.radius)>>)
    ELSE Array(<<Add(self.center[1], Mul(self.radius, CosTurn(s))),
                 Add(self.center[2], Mul(self.radius, SinTurn(s)))>>)

Circle_f(self, x) == Array(<<Add(self.center[1], self.radius), self.center[2]>>)
Circle_g(self, x) == Array(<<Add(self.center[1], self.radius), self.center[2]>>)
\* Circle::h testing for 0.5, 0.25 and 0.75 but not for 1.0.
Circle_branch_no_one(self, s) ==
    IF s = Half THEN "0.5"
    ELSE IF s = Quarter THEN "0.25"
    ELSE IF s = ThreeQuarters THEN "0.75"
    ELSE "trig"

\* The branch of Circle::h that returns for the parameter s: one of the four
\* special cases, named by the value s is compared with, or the final
\* expression with cos and sin.
Circle_branch(self, s) ==
    IF s = One THEN "1.0"
    ELSE IF s = Half THEN "0.5"
    ELSE IF s = Quarter THEN "0.25"
    ELSE IF s = ThreeQuarters THEN "0.75"
    ELSE "trig"

Circle_h(self, x, s) ==
    LET branch == Circle_branch(self, s)
    IN  IF branch = "1.0" THEN Circle_g(self, Unit)
        ELSE IF branch = "0.5"
            THEN Array(<<Sub(self.center[1], self.radius), self.center[2]>>)
        ELSE IF branch = "0.25"
            THEN Array(<<self.center[1], Add(self.center[2], self.radius)>>)
        ELSE IF branch = "0.75"
            THEN Array(<<self.center[1], Sub(self.center[2], self.radius)>>)
        ELSE Array(<<Add(self.center[1], Mul(self.radius, CosTurn(s))),
                     Add(self.center[2], Mul(self.radius, SinTurn(s)))>>)

Impl_f(self, x) == self.f0
Impl_g(self, x) == self.g0
Impl_h(self, x, s) == Add(Mul(self.h0, Sub(One, s)), Mul(self.h1, s))

\* Translate::h moving by the whole offset whatever the parameter.
Translate_h_whole(self, x, s) ==
    IF self.n = 0 THEN Add(x, self.d)
    ELSE Array([i \in 1..self.n |-> Add(x.items[i], self.d[i])])

Translate_f(self, x) == x
Translate_g(self, x) ==
    IF self.n = 0 THEN Add(x, self.d)
    ELSE Array([i \in 1..self.n |-> Add(x.items[i], self.d[i])])
Translate_h(self, x, s) ==
    IF self.n = 0 THEN Add(x, Mul(s, self.d))
    ELSE Array([i \in 1..self.n |-> Add(x.items[i], Mul(s, self.d[i]))])

\* Square::h with the two axes of the parameter exchanged.
Square_h_crossed(self, x, s) ==
    Tuple(<<h(self.h1, x.items[1], s[2]), h(self.h2, x.items[2], s[1])>>)

Square_f(self, x) == Tuple(<<f(self.h1, x.items[1]), f(self.h2, x.items[2])>>)
Square_g(self, x) == Tuple(<<g(self.h1, x.items[1]), g(self.h2, x.items[2])>>)
Square_h(self, x, s) ==
    Tuple(<<h(self.h1, x.items[1], s[1]), h(self.h2, x.items[2], s[2])>>)

Cube_f(self, x) ==
    Tuple(<<f(self.h1, x.items[1]), f(self.h2, x.items[2]), f(self.h3, x.items[3])>>)
Cube_g(self, x) ==
    Tuple(<<g(self.h1, x.items[1]), g(self.h2, x.items[2]), g(self.h3, x.items[3])>>)
Cube_h(self, x, s) ==
    Tuple(<<h(self.h1, x.items[1], s[1]), h(self.h2, x.items[2], s[2]),
            h(self.h3, x.items[3], s[3])>>)

Cube4_f(self, x) ==
    Tuple(<<f(self.h1, x.items[1]), f(self.h2, x.items[2]),
            f(self.h3, x.items[3]), f(self.h4, x.items[4])>>)
Cube4_g(self, x) ==
    Tuple(<<g(self.h1, x.items[1]), g(self.h2, x.items[2]),
            g(self.h3, x.items[3]), g(self.h4, x.items[4])>>)
Cube4_h(self, x, s) ==
    Tuple(<<h(self.h1, x.items[1], s[1]), h(self.h2, x.items[2], s[2]),
            h(self.h3, x.items[3], s[3]), h(self.h4, x.items[4], s[4])>>)

\* Inverse::h passing the parameter on unreversed.
Inverse_h_forward(self, x, s) == h(self.inner, x, s)

Inverse_f(self, x) == g(self.inner, x)
Inverse_g(self, x) == f(self.inner, x)
Inverse_h(self, x, s) == h(self.inner, x, Sub(One, s))

\* AsVec::f repeating the first component of the tuple.
AsVec_f_first(self, x) ==
    LET q == f(self.inner, Tuple(x.items)).items
    IN  Array([i \in 1..Len(q) |-> q[1]])

\* AsVec::h listing the components of the tuple in reverse.
AsVec_h_reversed(self, x, s) ==
    LET q == h(self.inner, Tuple(x.items), s).items
    IN  Array([i \in 1..Len(q) |-> q[Len(q) + 1 - i]])

\* let (a, b) = self.0.f((x[0], x[1])); [a, b]   (the same for arities 3 and 4)
AsVec_f(self, x) == Array(f(self.inner, Tuple(x.items)).items)
AsVec_g(self, x) == Array(g(self.inner, Tuple(x.items)).items)
AsVec_h(self, x, s) == Array(h(self.inner, Tuple(x.items), s).items)

\* SMap::g with the map's scalar left at the start value.
SMap_g_start(self, x) == Call2(self.fun, g(self.hom, x), Zero)

\* SMap::h handing the first axis, not the last, to the closure.
SMap_h_first(self, x, s) ==
    CASE Dim(self.hom) = 1 -> Call2(self.fun, h(self.hom, x, s[1]), s[1])
      [] Dim(self.hom) = 2 -> Call2(self.fun, h(self.hom, x, <<s[1], s[2]>>), s[1])
      [] Dim(self.hom) = 3 ->
            Call2(self.fun, h(self.hom, x, <<s[1], s[2], s[3]>>), s[1])

SMap_f(self, x) == Call2(self.fun, f(self.hom, x), Zero)
SMap_g(self, x) == Call2(self.fun, g(self.hom, x), One)
SMap_h(self, x, s) ==
    CASE Dim(self.hom) = 1 -> Call2(self.fun, h(self.hom, x, s[1]), s[2])
      [] Dim(self.hom) = 2 -> Call2(self.fun, h(self.hom, x, <<s[1], s[2]>>), s[3])
      [] Dim(self.hom) = 3 ->
            Call2(self.fun, h(self.hom, x, <<s[1], s[2], s[3]>>), s[4])

(***************************************************************************)
(* The modules sides and compose (Diagonal, the sides, the intersections,  *)
(* Compose).                                                               *)
(***************************************************************************)
\* n copies of v, as a parameter.
Fill(n, v) == IF n = 1 THEN v ELSE [i \in 1..n |-> v]

\* A parameter as a sequence of its axes, and back.
Axes(n, s) == IF n = 1 THEN <<s>> ELSE s
Param(q) == IF Len(q) = 1 THEN q[1] ELSE q

\* The parameter of the inner homotopy: the pinned axis put back among the
\* free axes, which keep their order.
WithPin(self, s) ==
    LET q == Axes(Dim(self), s)
        k == PinAxis(self)
    IN  [i \in 1..(Len(q) + 1) |->
            IF i < k THEN q[i] ELSE IF i = k THEN PinValue(self) ELSE q[i - 1]]

Sides_f(self, x) == h(self.inner, x, WithPin(self, Fill(Dim(self), Zero)))
Sides_g(self, x) == h(self.inner, x, WithPin(self, Fill(Dim(self), One)))
Sides_h(self, x, s) == h(self.inner, x, WithPin(self, s))

Diagonal_f(self, x) == f(self.inner, x)
Diagonal_g(self, x) == g(self.inner, x)
Diagonal_h(self, x, s) == h(self.inner, x, Fill(Dim(self.inner), s))

Compose_f(self, x) == f(self.b, f(self.a, x))
Compose_g(self, x) == g(self.b, g(self.a, x))
Compose_h(self, x, s) ==
    LET m == Dim(self.a)
        n == Dim(self.b)
    IN  h(self.b, h(self.a, x, Param(SubSeq(s, 1, m))), Param(SubSeq(s, m + 1, m + n)))

f(hm, x) ==
    CASE hm.tag = "Id" -> Id_f(hm, x)
      [] hm.tag = "Dirac" -> Dirac_f(hm, x)
      [] hm.tag = "DiracFrom" -> DiracFrom_f(hm, x)
      [] hm.tag = "Lerp" -> Lerp_f(hm, x)
      [] hm.tag = "QuadraticBezier" -> QuadraticBezier_f(hm, x)
      [] hm.tag = "CubicBezier" -> CubicBezier_f(hm, x)
      [] hm.tag = "Circle" -> Circle_f(hm, x)
      [] hm.tag = "Translate" -> Translate_f(hm, x)
      [] hm.tag = "Impl" -> Impl_f(hm, x)
      [] hm.tag = "Square" -> Square_f(hm, x)
      [] hm.tag = "Cube" -> Cube_f(hm, x)
      [] hm.tag = "Cube4" -> Cube4_f(hm, x)
      [] hm.tag = "Inverse" -> Inverse_f(hm, x)
      [] hm.tag = "AsVec" -> AsVec_f(hm, x)
      [] hm.tag = "SMap" -> SMap_f(hm, x)
      [] hm.tag = "Diagonal" -> Diagonal_f(hm, x)
      [] hm.tag = "Compose" -> Compose_f(hm, x)
      [] OTHER -> Sides_f(hm, x)

g(hm, x) ==
    CASE hm.tag = "Id" -> Id_g(hm, x)
      [] hm.tag = "Dirac" -> Dirac_g(hm, x)
      [] hm.tag = "DiracFrom" -> DiracFrom_g(hm, x)
      [] hm.tag = "Lerp" -> Lerp_g(hm, x)
      [] hm.tag = "QuadraticBezier" -> QuadraticBezier_g(hm, x)
      [] hm.tag = "CubicBezier" -> CubicBezier_g(hm, x)
      [] hm.tag = "Circle" -> Circle_g(hm, x)
      [] hm.tag = "Translate" -> Translate_g(hm, x)
      [] hm.tag = "Impl" -> Impl_g(hm, x)
      [] hm.tag = "Square" -> Square_g(hm, x)
      [] hm.tag = "Cube" -> Cube_g(hm, x)
      [] hm.tag = "Cube4" -> Cube4_g(hm, x)
      [] hm.tag = "Inverse" -> Inverse_g(hm, x)
      [] hm.tag = "AsVec" -> AsVec_g(hm, x)
      [] hm.tag = "SMap" -> SMap_g(hm, x)
      [] hm.tag = "Diagonal" -> Diagonal_g(hm, x)
      [] hm.tag = "Compose" -> Compose_g(hm, x)
      [] OTHER -> Sides_g(hm, x)

h(hm, x, s) ==
    CASE hm.tag = "Id" -> Id_h(hm, x, s)
      [] hm.tag = "Dirac" -> Dirac_h(hm, x, s)
      [] hm.tag = "DiracFrom" -> DiracFrom_h(hm, x, s)
      [] hm.tag = "Lerp" -> Lerp_h(hm, x, s)
      [] hm.tag = "QuadraticBezier" -> QuadraticBezier_h(hm, x, s)
      [] hm.tag = "CubicBezier" -> CubicBezier_h(hm, x, s)
      [] hm.tag = "Circle" -> Circle_h(hm, x, s)
      [] hm.tag = "Translate" -> Translate_h(hm, x, s)
      [] hm.tag = "Impl" -> Impl_h(hm, x, s)
      [] hm.tag = "Square" -> Square_h(hm, x, s)
      [] hm.tag = "Cube" -> Cube_h(hm, x, s)
      [] hm.tag = "Cube4" -> Cube4_h(hm, x, s)
      [] hm.tag = "Inverse" -> Inverse_h(hm, x, s)
      [] hm.tag = "AsVec" -> AsVec_h(hm, x, s)
      [] hm.tag = "SMap" -> SMap_h(hm, x, s)
      [] hm.tag = "Diagonal" -> Diagonal_h(hm, x, s)
      [] hm.tag = "Compose" -> Compose_h(hm, x, s)
      [] OTHER -> Sides_h(hm, x, s)

(***************************************************************************)
(* The contract checkers.                                                  *)
(***************************************************************************)
\* check comparing only the start: h(x, 0.0) with f(x).
check_start(hm, x) == h(hm, x, Zero) = f(hm, x)

check(hm, x) ==
    /\ h(hm, x, Zero) = f(hm, x)
    /\ h(hm, x, One) = g(hm, x)

\* The sides a checker of N axes checks, in the order of its conjuncts:
\* left, right, top, bottom (N >= 2), front, back (N >= 3), past, future (N = 4).
CheckedSides(n) == [i \in 1..(2 * n) |-> SideNames[i]]

\* check2 without the comparison of the all-one corner with g.
check2_start(hm, x) ==
    LET a == f(hm, x)
    IN  /\ h(hm, x, <<Zero, Zero>>) = a
        /\ \A i \in 1..4 : check(Side(CheckedSides(2)[i], hm), x)

check2(hm, x) ==
    LET a == f(hm, x)
        b == g(hm, x)
    IN  /\ h(hm, x, <<Zero, Zero>>) = a
        /\ h(hm, x, <<One, One>>) = b
        /\ \A i \in 1..4 : check(Side(CheckedSides(2)[i], hm), x)

check3(hm, x) ==
    LET a == f(hm, x)
        b == g(hm, x)
    IN  /\ h(hm, x, <<Zero, Zero, Zero>>) = a
        /\ h(hm, x, <<One, One, One>>) = b
        /\ \A i \in 1..6 : check2(Side(CheckedSides(3)[i], hm), x)

check4(hm, x) ==
    LET a == f(hm, x)
        b == g(hm, x)
    IN  /\ h(hm, x, <<Zero, Zero, Zero, Zero>>) = a
        /\ h(hm, x, <<One, One, One, One>>) = b
        /\ \A i \in 1..8 : check3(Side(CheckedSides(4)[i], hm), x)

\* Default::default() of an input type: 0.0, (), and componentwise.
RECURSIVE Default(_)
Default(t) ==
    IF t.kind = "f64" THEN R(0)
    ELSE IF t.kind = "unit" THEN Unit
    ELSE [kind |-> t.kind, items |-> [i \in 1..Len(t.items) |-> Default(t.items[i])]]

\* Homotopy::hu: h with the default value for X.
hu(hm, s) == h(hm, Default(XType(hm)), s)

\* checku comparing only the start: hu(0.0) with f(Default::default()).
checku_start(hm) == hu(hm, Zero) = f(hm, Default(XType(hm)))

checku(hm) ==
    /\ hu(hm, Zero) = f(hm, Default(XType(hm)))
    /\ hu(hm, One) = g(hm, Default(XType(hm)))

checku2(hm) ==
    LET a == f(hm, Default(XType(hm)))
        b == g(hm, Default(XType(hm)))
    IN  /\ hu(hm, <<Zero, Zero>>) = a
        /\ hu(hm, <<One, One>>) = b
        /\ \A i \in 1..4 : checku(Side(CheckedSides(2)[i], hm))

checku3(hm) ==
    LET a == f(hm, Default(XType(hm)))
        b == g(hm, Default(XType(hm)))
    IN  /\ hu(hm, <<Zero, Zero, Zero>>) = a
        /\ hu(hm, <<One, One, One>>) = b
        /\ \A i \in 1..6 : checku2(Side(CheckedSides(3)[i], hm))

checku4(hm) ==
    LET a == f(hm, Default(XType(hm)))
        b == g(hm, Default(XType(hm)))
    IN  /\ hu(hm, <<Zero, Zero, Zero, Zero>>) = a
        /\ hu(hm, <<One, One, One, One>>) = b
        /\ \A i \in 1..8 : checku3(Side(CheckedSides(4)[i], hm))

\* checku, checku2, checku3 or checku4, by the number of axes of hm.
checkuN(hm) ==
    CASE Dim(hm) = 1 -> checku(hm)
      [] Dim(hm) = 2 -> checku2(hm)
      [] Dim(hm) = 3 -> checku3(hm)
      [] Dim(hm) = 4 -> checku4(hm)

\* check, check2, check3 or check4, by the number of axes of hm.
checkN(hm, x) ==
    CASE Dim(hm) = 1 -> check(hm, x)
      [] Dim(hm) = 2 -> check2(hm, x)
      [] Dim(hm) = 3 -> check3(hm, x)
      [] Dim(hm) = 4 -> check4(hm, x)

(***************************************************************************)
(* The caller.  It builds a homotopy value bottom-up (hom, made by the     *)
(* constructor ctor), then calls f, g, h or a checker on it; op, x, s and  *)
(* y record the last call, its arguments and its result.  Every call is a  *)
(* pure function of the value and its arguments, so each call is taken     *)
(* from the state in which the value was built, and Forget returns there.  *)
(***************************************************************************)
VARIABLES hom, ctor, op, x, s, y
vars == <<hom, ctor, op, x, s, y>>

None == [kind |-> "none", items |-> <<>>]

\* The highest number of axes the checkers and the sides support (check4).
MaxAxes == 4

\* Constructor arguments (those of the library's tests).
Lerps == <<Lerp(R(1), R(2)), Lerp(R(1), R(5)), Lerp(R(3), R(10)), Lerp(R(11), R(15))>>
Beziers == <<<<R(1), R(5), R(2), R(3)>>, <<R(5), R(1), R(1), R(2)>>>>
Circles == <<Circle(<<R(0), R(0)>>, R(1)), Circle(<<R(0), R(0)>>, R(2))>>
Offsets == <<Translate(0, R(3)), Translate(0, R(10)), Translate(2, <<R(10), R(20)>>),
             Translate(3, <<R(10), R(20), R(30)>>)>>
Closures == <<<<"one", "zero">>, <<"sub2", "add2">>>>
\* Implementations that break the contract at the start, and at the end.
Impls == <<Impl(R(2), R(5), R(1), R(5)), Impl(R(1), R(4), R(1), R(5))>>

\* The homotopies the products are built from.
Pairs == <<<<Lerps[2], Lerps[4]>>, <<Circles[1], Circles[2]>>, <<Id, Lerps[2]>>,
           <<Lerps[1], Circles[1]>>, <<Id, Translate(0, R(10))>>,
           <<Lerps[3], DiracFrom("one", "zero")>>, <<Impls[2], Lerps[2]>>>>
Triples == <<<<Lerp(R(1), R(2)), Lerp(R(3), R(4)), Lerp(R(5), R(6))>>,
             <<Id, Lerps[2], Circles[1]>>,
             <<Lerp(R(0), R(1)), Lerp(R(0), R(1)), Lerp(R(0), R(1))>>>>
Quads == <<<<Lerp(R(1), R(2)), Lerp(R(3), R(4)), Lerp(R(5), R(6)), Lerp(R(7), R(8))>>,
           <<Id, Lerps[1], Circles[1], Dirac>>>>
\* The second stages of a composition.
Stages == <<Translate(0, R(10)), DiracFrom("sub2", "add2"),
            Translate(2, <<R(10), R(20)>>), Translate(3, <<R(10), R(20), R(30)>>)>>

\* The parameters a caller passes: on one axis, and on each of several.
S1 == {Zero, Tiny, Fifth, Quarter, Half, ThreeQuarters, One}
SAxis == {Zero, Tiny, Half, One}
SCoarse == {Zero, Half, One}
Params(n) == IF n = 1 THEN S1 ELSE IF n = 2 THEN [1..n -> SAxis] ELSE [1..n -> SCoarse]
\* The values an intersection pins its axis to.
Pins == {Zero, Fifth, Half, One}

\* The number of combinators stacked on a product or primitive.
RECURSIVE Wraps(_)
Wraps(hm) ==
    CASE hm.tag = "SMap" -> 1 + Wraps(hm.hom)
      [] hm.tag = "Compose" -> 1 + Wraps(hm.a)
      [] hm.tag \in {"Inverse", "AsVec", "Diagonal"} \/ IsSide(hm) \/ IsSlice(hm) ->
            1 + Wraps(hm.inner)
      [] OTHER -> 0

Built(hm, name) ==
    /\ hom' = hm
    /\ ctor' = name
    /\ UNCHANGED <<op, x, s, y>>

Init ==
    /\ hom = Id
    /\ ctor = "Id"
    /\ op = "new"
    /\ x = None
    /\ s = None
    /\ y = None

NewId ==
    /\ op = "new"
    /\ Built(Id, "Id")
NewDirac ==
    /\ op = "new"
    /\ Built(Dirac, "Dirac")
NewDiracFrom == \E i \in 1..Len(Closures) :
    /\ op = "new"
    /\ Built(DiracFrom(Closures[i][1], Closures[i][2]), "DiracFrom::new")
NewLerp == \E i \in 1..Len(Lerps) :
    /\ op = "new"
    /\ Built(Lerps[i], "Lerp")
NewQuadraticBezier == \E i \in 1..Len(Beziers) :
    /\ op = "new"
    /\ Built(QuadraticBezier(Beziers[i][1], Beziers[i][2], Beziers[i][3]),
             "QuadraticBezier")
FromLinear == \E i \in 1..Len(Beziers) :
    /\ op = "new"
    /\ Built(from_linear(Beziers[i][1], Beziers[i][2]), "QuadraticBezier::from_linear")
NewCubicBezier == \E i \in 1..Len(Beziers) :
    /\ op = "new"
    /\ Built(CubicBezier(Beziers[i][1], Beziers[i][2], Beziers[i][3], Beziers[i][4]),
             "CubicBezier")
FromQuadratic == \E i \in 1..Len(Beziers) :
    /\ op = "new"
    /\ Built(from_quadratic(Beziers[i][1], Beziers[i][2], Beziers[i][3]),
             "CubicBezier::from_quadratic")
NewCircle == \E i \in 1..Len(Circles) :
    /\ op = "new"
    /\ Built(Circles[i], "Circle")
NewTranslate == \E i \in 1..Len(Offsets) :
    /\ op = "new"
    /\ Built(Offsets[i], "Translate")
NewImpl == \E i \in 1..Len(Impls) :
    /\ op = "new"
    /\ Built(Impls[i], "Impl")
NewSquare == \E i \in 1..Len(Pairs) :
    /\ op = "new"
    /\ Built(Square(Pairs[i][1], Pairs[i][2]), "Square::new")
NewCube == \E i \in 1..Len(Triples) :
    /\ op = "new"
    /\ Built(Cube(Triples[i][1], Triples[i][2], Triples[i][3]), "Cube::new")
NewCube4 == \E i \in 1..Len(Quads) :
    /\ op = "new"
    /\ Built(Cube4(Quads[i][1], Quads[i][2], Quads[i][3], Quads[i][4]), "Cube4::new")

\* All items of a type's item list are the same type.
Uniform(ts) == \A i \in 1..Len(ts) : ts[i] = ts[1]

MkInverse ==
    /\ op = "new"
    /\ Wraps(hom) < MaxWraps
    /\ Dim(hom) = 1
    /\ Built(Inverse(hom), "inverse")
MkAsVec ==
    /\ op = "new"
    /\ Wraps(hom) < MaxWraps
    /\ XType(hom).kind = "tuple"
    /\ YType(hom).kind = "tuple"
    /\ Uniform(XType(hom).items)
    /\ Uniform(YType(hom).items)
    /\ Built(AsVec(hom), "as_vec")
MkSMap == \E fun \in Transforms :
    /\ op = "new"
    /\ Wraps(hom) < MaxWraps
    /\ Dim(hom) < MaxAxes
    /\ Accepts(fun, YType(hom))
    /\ Built(SMap(hom, fun), "smap")
MkDiagonal ==
    /\ op = "new"
    /\ Wraps(hom) < MaxWraps
    /\ Dim(hom) > 1
    /\ Built(Diagonal(hom), "diagonal")
MkSide == \E i \in 1..Len(SideNames) :
    /\ op = "new"
    /\ Wraps(hom) < MaxWraps
    /\ Dim(hom) > 1
    /\ PinAxis(Side(SideNames[i], hom)) <= Dim(hom)
    /\ Built(Side(SideNames[i], hom), "side")
MkSlice == \E i \in 1..Len(SliceNames), p \in Pins :
    /\ op = "new"
    /\ Wraps(hom) < MaxWraps
    /\ Dim(hom) > 1
    /\ PinAxis(Slice(SliceNames[i], hom, p)) <= Dim(hom)
    /\ Built(Slice(SliceNames[i], hom, p), "slice")
MkCompose == \E i \in 1..Len(Stages) :
    /\ op = "new"
    /\ Wraps(hom) < MaxWraps
    /\ Dim(hom) + Dim(Stages[i]) <= MaxAxes
    /\ YType(hom) = XType(Stages[i])
    /\ Built(Compose(hom, Stages[i]), "Compose::new")

Called(name, xv, sv, yv) ==
    /\ op = "new"
    /\ op' = name
    /\ x' = xv
    /\ s' = sv
    /\ y' = yv
    /\ UNCHANGED <<hom, ctor>>

CallF == \E xv \in Dom(XType(hom)) : Called("f", xv, None, f(hom, xv))
CallG == \E xv \in Dom(XType(hom)) : Called("g", xv, None, g(hom, xv))
CallH == \E xv \in Dom(XType(hom)), sv \in Params(Dim(hom)) :
    Called("h", xv, sv, h(hom, xv, sv))
CallCheck == \E xv \in Dom(XType(hom)) :
    /\ Dim(hom) <= MaxAxes
    /\ Called("check", xv, None, checkN(hom, xv))
CallChecku ==
    /\ Dim(hom) <= MaxAxes
    /\ Called("checku", Default(XType(hom)), None, checkuN(hom))
Forget ==
    /\ op # "new"
    /\ op' = "new"
    /\ x' = None
    /\ s' = None
    /\ y' = None
    /\ UNCHANGED <<hom, ctor>>

Next ==
    \/ NewId \/ NewDirac \/ NewDiracFrom \/ NewLerp \/ NewQuadraticBezier
    \/ FromLinear \/ NewCubicBezier \/ FromQuadratic \/ NewCircle \/ NewTranslate
    \/ NewImpl
    \/ NewSquare \/ NewCube \/ NewCube4
    \/ MkInverse \/ MkAsVec \/ MkSMap \/ MkDiagonal \/ MkSide \/ MkSlice \/ MkCompose
    \/ CallF \/ CallG \/ CallH \/ CallCheck \/ Forget

Spec == Init /\ [][Next]_vars

(***************************************************************************)
(* The primitives over a wider range of constructor arguments: every       *)
(* primitive the constructors can make from WidePoints is an initial       *)
(* state, and the caller calls f, g, h and check on it.                    *)
(***************************************************************************)
\* 0, 1, 2, 5 and the float nearest to 1.2.
WidePoints == {R(0), R(1), R(2), R(5), Rnd(6 * Scale, 5)}

InitPrim ==
    /\ op = "new"
    /\ x = None
    /\ s = None
    /\ y = None
    /\ \/ hom = Id /\ ctor = "Id"
       \/ hom = Dirac /\ ctor = "Dirac"
       \/ \E i \in 1..Len(Closures) :
            hom = DiracFrom(Closures[i][1], Closures[i][2]) /\ ctor = "DiracFrom::new"
       \/ \E a \in WidePoints, b \in WidePoints : hom = Lerp(a, b) /\ ctor = "Lerp"
       \/ \E a \in WidePoints, b \in WidePoints, c \in WidePoints :
            hom = QuadraticBezier(a, b, c) /\ ctor = "QuadraticBezier"
       \/ \E a \in WidePoints, b \in WidePoints :
            hom = from_linear(a, b) /\ ctor = "QuadraticBezier::from_linear"
       \/ \E a \in WidePoints, b \in WidePoints, c \in WidePoints, d \in WidePoints :
            hom = CubicBezier(a, b, c, d) /\ ctor = "CubicBezier"
       \/ \E a \in WidePoints, b \in WidePoints, c \in WidePoints :
            hom = from_quadratic(a, b, c) /\ ctor = "CubicBezier::from_quadratic"
       \/ \E cx \in WidePoints, cy \in WidePoints, r \in {R(1), R(2), Rnd(6 * Scale, 5)} :
            hom = Circle(<<cx, cy>>, r) /\ ctor = "Circle"
       \/ \E d \in WidePoints : hom = Translate(0, d) /\ ctor = "Translate"
       \/ \E d \in WidePoints, e \in WidePoints :
            hom = Translate(2, <<d, e>>) /\ ctor = "Translate"

NextPrim == CallF \/ CallG \/ CallH \/ CallCheck \/ CallChecku \/ Forget

SpecPrim == InitPrim /\ [][NextPrim]_vars

(***************************************************************************)
(* The checkers on the primitives, the products and their sides: the       *)
(* caller builds a primitive or a product of one to four axes, takes sides  *)
(* of it, and calls the checker of its number of axes, with an input       *)
(* (check .. check4) or at the default input (checku .. checku4).          *)
(***************************************************************************)
NextCheck ==
    \/ NewId \/ NewDirac \/ NewDiracFrom \/ NewLerp \/ NewQuadraticBezier
    \/ NewCubicBezier \/ NewCircle \/ NewTranslate \/ NewImpl
    \/ NewSquare \/ NewCube \/ NewCube4
    \/ MkSide
    \/ CallCheck \/ CallChecku \/ Forget

SpecCheck == Init /\ [][NextCheck]_vars

(***************************************************************************)
(* The properties checked.                                                 *)
(***************************************************************************)
IsPrimitive(hm) ==
    hm.tag \in {"Id", "Dirac", "DiracFrom", "Lerp", "QuadraticBezier", "CubicBezier",
                "Circle", "Translate"}

\* C1: every primitive homotopy satisfies the boundary contract: for every
\* constructor argument and input x, h(x, 0) = f(x) and h(x, 1) = g(x), and
\* check returns true on it.
C1_PrimitiveBoundary ==
    IsPrimitive(hom) =>
        /\ (op = "h" /\ s = Zero) => y = f(hom, x)
        /\ (op = "h" /\ s = One) => y = g(hom, x)
        /\ (op = "check") => y = TRUE

\* check has returned true on a circle whose center is not the origin and whose
\* radius is not a power of two.
C1_Witness ==
    /\ op = "check"
    /\ hom.tag = "Circle"
    /\ hom.center = <<R(0), R(1)>>
    /\ hom.radius = Rnd(6 * Scale, 5)
    /\ y = TRUE

\* hm matches its f at the all-zero parameter and its g at the all-one parameter.
Satisfies(hm, xv) ==
    /\ h(hm, xv, Fill(Dim(hm), Zero)) = f(hm, xv)
    /\ h(hm, xv, Fill(Dim(hm), One)) = g(hm, xv)

IsRaising(hm) == hm.tag \in {"Square", "Cube", "Cube4", "Compose", "SMap"}

\* Every homotopy hm is built from satisfies the contract on the input it gets
\* for the outer input xv.
InnerSatisfy(hm, xv) ==
    CASE hm.tag = "Square" -> Satisfies(hm.h1, xv.items[1]) /\ Satisfies(hm.h2, xv.items[2])
      [] hm.tag = "Cube" ->
            /\ Satisfies(hm.h1, xv.items[1])
            /\ Satisfies(hm.h2, xv.items[2])
            /\ Satisfies(hm.h3, xv.items[3])
      [] hm.tag = "Cube4" ->
            /\ Satisfies(hm.h1, xv.items[1])
            /\ Satisfies(hm.h2, xv.items[2])
            /\ Satisfies(hm.h3, xv.items[3])
            /\ Satisfies(hm.h4, xv.items[4])
      [] hm.tag = "Compose" ->
            /\ Satisfies(hm.a, xv)
            /\ Satisfies(hm.b, f(hm.a, xv))
            /\ Satisfies(hm.b, g(hm.a, xv))
      [] hm.tag = "SMap" -> Satisfies(hm.hom, xv)

\* C2: the dimension-raising combinators preserve the boundary contract: when
\* every inner homotopy of a Square, Cube, Cube4, Compose or SMap satisfies
\* h(x, 0) = f(x) and h(x, 1) = g(x), the checker of the resulting number of
\* axes returns true: the all-zero and all-one corners match f and g, and
\* every recursively extracted face satisfies its contract.
C2_RaisingPreserves ==
    (op = "check" /\ IsRaising(hom) /\ InnerSatisfy(hom, x)) =>
        /\ y = TRUE
        /\ Satisfies(hom, x)
        /\ \A i \in 1..(2 * Dim(hom)) : checkN(Side(SideNames[i], hom), x)

\* check3 has returned true on a composition of three stages, each of which
\* satisfies the contract.
C2_Witness ==
    /\ op = "check"
    /\ hom = Compose(Compose(Lerps[1], Stages[1]), Stages[1])
    /\ InnerSatisfy(hom, x)
    /\ y = TRUE

\* C3: the dimension-lowering combinators preserve the boundary contract: when
\* the checker of N axes (N = 2, 3, 4) returns true on H, each face of H passes
\* the checker of N - 1 axes, each slice passes it for every pin value (not
\* only 0.5), and the diagonal of H passes the 1-axis check.
C3_LoweringPreserves ==
    (op = "check" /\ Dim(hom) >= 2 /\ y = TRUE) =>
        /\ \A i \in 1..(2 * Dim(hom)) : checkN(Side(SideNames[i], hom), x)
        /\ \A i \in 1..Dim(hom), p \in S1 : checkN(Slice(SliceNames[i], hom, p), x)
        /\ check(Diagonal(hom), x)

\* check4 has returned true on a Cube4.
C3_Witness ==
    /\ op = "check"
    /\ hom.tag = "Cube4"
    /\ Dim(hom) = MaxAxes
    /\ y = TRUE

\* Components from..to of the parameter q, as a parameter of to - from + 1 axes.
Components(q, from, to) ==
    IF from = to THEN q[from] ELSE [i \in 1..(to - from + 1) |-> q[from + i - 1]]

\* Lerp(1, 2) composed with Translate(10) twice.
LerpThenTwoOffsets ==
    Compose(Compose(Lerp(R(1), R(2)), Translate(0, R(10))), Translate(0, R(10)))

\* C4: Compose(A, B) with A of m axes and B of n axes has m + n axes,
\* f(x) = B.f(A.f(x)), g(x) = B.g(A.g(x)) and h(x, s) = B.h(A.h(x, first m
\* components of s), last n components of s); the slots apply left to right in
\* construction order: Compose(Compose(A, B), C).h(x, [s0, s1, s2]) =
\* C.h(B.h(A.h(x, s0), s1), s2), and Lerp(1, 2) followed by Translate(10) twice
\* gives 1 at [0,0,0], 11 at [0,0,1] and [0,1,0], 21 at [0,1,1], 22 at [1,1,1].
C4_ComposeSemantics ==
    hom.tag = "Compose" =>
        LET A == hom.a
            B == hom.b
            m == Dim(A)
            n == Dim(B)
        IN  /\ Dim(hom) = m + n
            /\ op = "f" => y = f(B, f(A, x))
            /\ op = "g" => y = g(B, g(A, x))
            /\ op = "h" =>
                    /\ Len(s) = m + n
                    /\ y = h(B, h(A, x, Components(s, 1, m)), Components(s, m + 1, m + n))
            /\ (op = "h" /\ A.tag = "Compose" /\ m + n = 3) =>
                    y = h(B, h(A.b, h(A.a, x, s[1]), s[2]), s[3])
            /\ (op = "h" /\ hom = LerpThenTwoOffsets) =>
                    /\ s = <<Zero, Zero, Zero>> => y = R(1)
                    /\ s = <<Zero, Zero, One>> => y = R(11)
                    /\ s = <<Zero, One, Zero>> => y = R(11)
                    /\ s = <<Zero, One, One>> => y = R(21)
                    /\ s = <<One, One, One>> => y = R(22)

\* Lerp(1, 2) followed by Translate(10) twice has been evaluated at [0, 1, 1].
C4_Witness ==
    /\ op = "h"
    /\ hom = LerpThenTwoOffsets
    /\ s = <<Zero, One, One>>
    /\ y = R(21)

IsProduct(hm) == hm.tag \in {"Square", "Cube", "Cube4"}

\* The k-th homotopy a product was built from.
Factor(hm, k) ==
    CASE k = 1 -> hm.h1
      [] k = 2 -> hm.h2
      [] k = 3 -> hm.h3
      [] k = 4 -> hm.h4

\* C5: for Square, Cube and Cube4 built from H1..HN, component k of
\* h((x1..xN), s) equals Hk.h(xk, s[k]) and depends on no other axis or input:
\* changing s[j] or xj for j # k never changes component k; f and g are the
\* tuples of the inner f and g.
C5_AxisIndependence ==
    IsProduct(hom) =>
        LET N == Dim(hom)
        IN  /\ op = "h" =>
                /\ y.kind = "tuple"
                /\ Len(y.items) = N
                /\ \A k \in 1..N : y.items[k] = h(Factor(hom, k), x.items[k], s[k])
                /\ \A k \in 1..N : \A j \in (1..N) \ {k}, v \in SAxis :
                        h(hom, x, [s EXCEPT ![j] = v]).items[k] = y.items[k]
                /\ \A k \in 1..N, xv \in Dom(XType(hom)) :
                        xv.items[k] = x.items[k] => h(hom, xv, s).items[k] = y.items[k]
            /\ op = "f" =>
                y = Tuple([k \in 1..N |-> f(Factor(hom, k), x.items[k])])
            /\ op = "g" =>
                y = Tuple([k \in 1..N |-> g(Factor(hom, k), x.items[k])])

\* A Square of two different interpolations has been evaluated at a parameter
\* whose two axes differ.
C5_Witness ==
    /\ op = "h"
    /\ hom = Square(Lerps[2], Lerps[4])
    /\ s = <<Zero, Half>>
    /\ y = Tuple(<<R(1), R(13)>>)

\* The axis (0-based) and the boundary value a face is named after.
FaceAxis(name) ==
    CASE name \in {"Left", "Right"} -> 0
      [] name \in {"Top", "Bottom"} -> 1
      [] name \in {"Front", "Back"} -> 2
      [] name \in {"Past", "Future"} -> 3
FaceValue(name) == IF name \in {"Left", "Top", "Front", "Past"} THEN Zero ELSE One

\* The parameter t of n - 1 axes with the value v inserted as axis k (0-based).
InsertAxis(n, t, k, v) ==
    LET q == IF n = 2 THEN <<t>> ELSE t
    IN  SubSeq(q, 1, k) \o <<v>> \o SubSeq(q, k + 1, n - 1)

\* n copies of v as a parameter of n axes.
AllAt(n, v) == IF n = 1 THEN v ELSE [i \in 1..n |-> v]

\* The square of the circles of radius 1 and 2 around the origin, as a vector.
CircleSquare == AsVec(Square(Circle(<<R(0), R(0)>>, R(1)), Circle(<<R(0), R(0)>>, R(2))))

\* C6: a face of an N-axis homotopy H (N = 2, 3, 4) pins exactly one axis to a
\* boundary value: Left/Right axis 0 to 0/1, Top/Bottom axis 1, Front/Back
\* axis 2, Past/Future axis 3.  The face's h(x, t) is H.h(x, s) with the pinned
\* axis at its value and the other axes the components of t in order; its f and
\* g are H.h with the other axes all 0 and all 1.  For the square of the
\* circles of radius 1 and 2, top at 0.5 is [[-1,0],[2,0]] and left at 0.5 is
\* [[1,0],[-2,0]].
C6_FacePinsAxis ==
    IsSide(hom) =>
        LET H == hom.inner
            N == Dim(H)
            k == FaceAxis(hom.tag)
            b == FaceValue(hom.tag)
        IN  /\ N \in 2..4
            /\ Dim(hom) = N - 1
            /\ op = "h" => y = h(H, x, InsertAxis(N, s, k, b))
            /\ op = "f" => y = h(H, x, InsertAxis(N, AllAt(N - 1, Zero), k, b))
            /\ op = "g" => y = h(H, x, InsertAxis(N, AllAt(N - 1, One), k, b))
            /\ (op = "h" /\ hom = Side("Top", CircleSquare) /\ s = Half) =>
                    y = Array(<<Array(<<-R(1), R(0)>>), Array(<<R(2), R(0)>>)>>)
            /\ (op = "h" /\ hom = Side("Left", CircleSquare) /\ s = Half) =>
                    y = Array(<<Array(<<R(1), R(0)>>), Array(<<-R(2), R(0)>>)>>)

\* The left face of the square of the two circles has been evaluated at 0.5.
C6_Witness ==
    /\ op = "h"
    /\ hom = Side("Left", CircleSquare)
    /\ s = Half
    /\ y = Array(<<Array(<<R(1), R(0)>>), Array(<<-R(2), R(0)>>)>>)

\* The axis (0-based) an intersection is named after, and the faces at the two
\* ends of that axis.
SliceAxis(name) ==
    CASE name = "LeftRight" -> 0
      [] name = "TopBottom" -> 1
      [] name = "FrontBack" -> 2
      [] name = "PastFuture" -> 3
LowFace(name) ==
    CASE name = "LeftRight" -> "Left"
      [] name = "TopBottom" -> "Top"
      [] name = "FrontBack" -> "Front"
      [] name = "PastFuture" -> "Past"
HighFace(name) ==
    CASE name = "LeftRight" -> "Right"
      [] name = "TopBottom" -> "Bottom"
      [] name = "FrontBack" -> "Back"
      [] name = "PastFuture" -> "Future"

\* The homotopies a and b agree on the last call: it returned y on hom = a,
\* and returns the same on b.
SameOn(b) ==
    /\ op = "f" => f(b, x) = y
    /\ op = "g" => g(b, x) = y
    /\ op = "h" => h(b, x, s) = y

\* C7: slices generalize faces: LeftRight(p), TopBottom(p), FrontBack(p) and
\* PastFuture(p) pin axis 0, 1, 2, 3 to p; the slice's h(x, t) is H.h with that
\* axis at p and the other axes from t in order, its f and g are H.h with that
\* axis at p and the other axes all 0 and all 1.  At p = 0 the slice agrees
\* with the Left/Top/Front/Past face on f, g and h, at p = 1 with the
\* Right/Bottom/Back/Future face.
C7_SliceGeneralizesFace ==
    IsSlice(hom) =>
        LET H == hom.inner
            N == Dim(H)
            k == SliceAxis(hom.tag)
            p == hom.pin
        IN  /\ Dim(hom) = N - 1
            /\ op = "h" => y = h(H, x, InsertAxis(N, s, k, p))
            /\ op = "f" => y = h(H, x, InsertAxis(N, AllAt(N - 1, Zero), k, p))
            /\ op = "g" => y = h(H, x, InsertAxis(N, AllAt(N - 1, One), k, p))
            /\ p = Zero => SameOn(Side(LowFace(hom.tag), H))
            /\ p = One => SameOn(Side(HighFace(hom.tag), H))

\* The intersection of a cube at 1 on its second axis has been evaluated at
\* a parameter whose two axes differ, and gave what the bottom face gives.
C7_Witness ==
    /\ op = "h"
    /\ hom.tag = "TopBottom"
    /\ hom.pin = One
    /\ hom.inner.tag = "Cube"
    /\ s = <<Half, Zero>>
    /\ y = h(Side("Bottom", hom.inner), x, s)

\* C8: Diagonal(H) of an N-axis homotopy H is a 1-axis homotopy with
\* h(x, s) = H.h(x, [s, s, ..., s]) and f, g those of H unchanged; for
\* Square(A, B), diagonal.h((x0, x1), s) = (A.h(x0, s), B.h(x1, s)) for every
\* s: Lerp(1, 5) and Lerp(11, 15) give (3, 13) at s = 0.5.
C8_Diagonal ==
    hom.tag = "Diagonal" =>
        LET H == hom.inner
            N == Dim(H)
        IN  /\ Dim(hom) = 1
            /\ op = "h" => y = h(H, x, [i \in 1..N |-> s])
            /\ op = "f" => y = f(H, x)
            /\ op = "g" => y = g(H, x)
            /\ (op = "h" /\ H.tag = "Square") =>
                    y = Tuple(<<h(H.h1, x.items[1], s), h(H.h2, x.items[2], s)>>)
            /\ (op = "h" /\ H = Square(Lerp(R(1), R(5)), Lerp(R(11), R(15))) /\ s = Half) =>
                    y = Tuple(<<R(3), R(13)>>)

\* The diagonal of Square(Lerp(1, 5), Lerp(11, 15)) has been evaluated at 0.5.
C8_Witness ==
    /\ op = "h"
    /\ hom = Diagonal(Square(Lerp(R(1), R(5)), Lerp(R(11), R(15))))
    /\ s = Half
    /\ y = Tuple(<<R(3), R(13)>>)

\* C9 as stated: Inverse(Inverse(H)) agrees with H on f, on g and on h at
\* every x and every s.
C9_DoubleInverseEverywhere ==
    (hom.tag = "Inverse" /\ hom.inner.tag = "Inverse") => SameOn(hom.inner.inner)

\* C9, amended: Inverse(H) swaps f and g and evaluates h'(x, s) = H.h(x, 1 - s)
\* with the f64 subtraction; Inverse(H) satisfies the boundary contract
\* whenever H does; Inverse(Inverse(H)) agrees with H on f and g at every x,
\* and on h at every s for which 1 - (1 - s) = s in f64 arithmetic.
C9_Inverse ==
    hom.tag = "Inverse" =>
        LET H == hom.inner
        IN  /\ op = "f" => y = g(H, x)
            /\ op = "g" => y = f(H, x)
            /\ op = "h" => y = h(H, x, Sub(One, s))
            /\ (op = "h" /\ s = Zero /\ check(H, x)) => y = f(hom, x)
            /\ (op = "h" /\ s = One /\ check(H, x)) => y = g(hom, x)
            /\ (op = "check" /\ check(H, x)) => y = TRUE
            /\ (H.tag = "Inverse" /\ op \in {"f", "g"}) => SameOn(H.inner)
            /\ (H.tag = "Inverse" /\ op = "h" /\ Sub(One, Sub(One, s)) = s) =>
                    y = h(H.inner, x, s)

\* The inverse of the inverse of an interpolation has been evaluated at 0.75,
\* where reversing the parameter twice is exact, and gave what the
\* interpolation gives.
C9_Witness ==
    /\ op = "h"
    /\ hom = Inverse(Inverse(Lerps[2]))
    /\ s = ThreeQuarters
    /\ Sub(One, Sub(One, s)) = s
    /\ y = h(Lerps[2], x, s)
    /\ y = R(4)

\* The curves a reduced curve was built from: from_linear(a, b) keeps a and b
\* as its end points, from_quadratic(a, b, c) keeps a, b, c as points 0, 1, 3.
LinearOf(qb) == Lerp(qb.p0, qb.p2)
QuadraticOf(cb) == QuadraticBezier(cb.p0, cb.p1, cb.p3)

\* The larger of the magnitudes of two floats, and the spacing of the floats
\* at a magnitude.
MaxAbs(a, b) == IF Abs(a) >= Abs(b) THEN Abs(a) ELSE Abs(b)
Spacing(v) == Ulp(Abs(v), 1, 1)

C11_CircleCanonicalPoints ==
    hom.tag = "Circle" =>
        LET cx == hom.center[1]
            cy == hom.center[2]
            r == hom.radius
        IN  /\ op \in {"f", "g"} => y = Array(<<Add(cx, r), cy>>)
            /\ f(hom, Unit) = g(hom, Unit)
            /\ (op = "h" /\ s \in {Zero, One}) => y = Array(<<Add(cx, r), cy>>)
            /\ (op = "h" /\ s = Quarter) => y = Array(<<cx, Add(cy, r)>>)
            /\ (op = "h" /\ s = Half) => y = Array(<<Sub(cx, r), cy>>)
            /\ (op = "h" /\ s = ThreeQuarters) => y = Array(<<cx, Sub(cy, r)>>)
            /\ (op = "h" /\ hom = Circle(<<R(0), R(0)>>, R(1))) =>
                    /\ s \in {Zero, One} => y = Array(<<R(1), R(0)>>)
                    /\ s = Half => y = Array(<<-R(1), R(0)>>)
                    /\ s = Quarter => y = Array(<<R(0), R(1)>>)
                    /\ s = ThreeQuarters => y = Array(<<R(0), -R(1)>>)

\* The unit circle around the origin has been evaluated at a quarter turn.
C11_Witness ==
    /\ op = "h"
    /\ hom = Circle(<<R(0), R(0)>>, R(1))
    /\ s = Quarter
    /\ y = Array(<<R(0), R(1)>>)

\* C12: check(H, x) returns true exactly when H.h(x, 0) = H.f(x) and
\* H.h(x, 1) = H.g(x); for N = 2, 3, 4, checkN(H, x) returns true exactly when
\* H.h(x, all-zero) = H.f(x), H.h(x, all-one) = H.g(x) and the checker of
\* N - 1 axes returns true on every one of the 2N faces of H (left, right, top,
\* bottom; front, back for N >= 3; past, future for N = 4).  A failure on any
\* single corner or face makes the result false.
C12_CheckerRecursion ==
    op = "check" =>
        LET N == Dim(hom)
            zero == h(hom, x, AllAt(N, Zero)) = f(hom, x)
            one == h(hom, x, AllAt(N, One)) = g(hom, x)
            Faces == IF N = 1 THEN {}
                     ELSE {Side(name, hom) :
                            name \in {"Left", "Right", "Top", "Bottom"}
                                \cup (IF N >= 3 THEN {"Front", "Back"} ELSE {})
                                \cup (IF N = 4 THEN {"Past", "Future"} ELSE {})}
        IN  /\ N \in 1..4
            /\ Cardinality(Faces) = IF N = 1 THEN 0 ELSE 2 * N
            /\ y = (zero /\ one /\ \A face \in Faces : checkN(face, x))
            /\ ~zero => y = FALSE
            /\ ~one => y = FALSE
            /\ \A face \in Faces : ~checkN(face, x) => y = FALSE

\* check3 has returned false on a composition whose all-one corner does not
\* match g.
C12_Witness ==
    /\ op = "check"
    /\ hom = Compose(AsVec(Square(Impls[2], Lerps[2])), Stages[3])
    /\ Dim(hom) = 3
    /\ h(hom, x, <<Zero, Zero, Zero>>) = f(hom, x)
    /\ h(hom, x, <<One, One, One>>) # g(hom, x)
    /\ y = FALSE

\* C13: SMap of an N-axis homotopy H (N = 1, 2, 3) with a closure transform
\* is a homotopy of N + 1 axes with f(x) = transform(H.f(x), 0),
\* g(x) = transform(H.g(x), 1) and h(x, s) = transform(H.h(x, first N
\* components of s), s[N]): the first N axes drive H unchanged and only the
\* last axis reaches transform.  For any transform, its all-zero and all-one
\* corners match f and g whenever H satisfies its own corner contract.
C13_SMap ==
    hom.tag = "SMap" =>
        LET H == hom.hom
            N == Dim(H)
        IN  /\ N \in 1..3
            /\ Dim(hom) = N + 1
            /\ op = "f" => y = Call2(hom.fun, f(H, x), Zero)
            /\ op = "g" => y = Call2(hom.fun, g(H, x), One)
            /\ op = "h" =>
                    /\ Len(s) = N + 1
                    /\ y = Call2(hom.fun, h(H, x, Components(s, 1, N)), s[N + 1])
            /\ (op # "new" /\ Satisfies(H, x)) => Satisfies(hom, x)

\* The SMap of a cube of three interpolations has been evaluated at a
\* parameter whose last axis differs from the first three.
C13_Witness ==
    /\ op = "h"
    /\ hom = SMap(Cube(Triples[1][1], Triples[1][2], Triples[1][3]), "blend")
    /\ s = <<Zero, One, One, Half>>
    /\ y = Rnd(7 * Scale, 2)
    /\ Satisfies(hom, x)

\* The tuple (x0, ..) with the components of the array [x0, ..].
AsTuple(a) == [kind |-> "tuple", items |-> a.items]

\* The value v is an array whose components are, in order, those of the tuple w.
ArrayOf(v, w) ==
    /\ v.kind = "array"
    /\ w.kind = "tuple"
    /\ Len(v.items) = Len(w.items)
    /\ \A i \in 1..Len(w.items) : v.items[i] = w.items[i]

\* C14: AsVec changes the representation only: for arities 2, 3 and 4 and any
\* parameter shape, AsVec(H).f, .g and .h applied to the array [x0, ..] return
\* the array whose components are, in order, the tuple components of H.f, H.g
\* and H.h applied to the tuple (x0, ..) with the same parameter; AsVec(H)
\* passes checkN exactly when H does.
C14_AsVec ==
    hom.tag = "AsVec" =>
        LET H == hom.inner
        IN  /\ Dim(hom) = Dim(H)
            /\ op # "new" =>
                    /\ x.kind = "array"
                    /\ Len(x.items) \in 2..4
            /\ op = "f" => ArrayOf(y, f(H, AsTuple(x)))
            /\ op = "g" => ArrayOf(y, g(H, AsTuple(x)))
            /\ op = "h" => ArrayOf(y, h(H, AsTuple(x), s))
            /\ op = "check" => y = checkN(H, AsTuple(x))

\* The vector form of a Cube4 of four interpolations has been evaluated at a
\* parameter whose axes differ.
C14_Witness ==
    /\ op = "h"
    /\ hom = AsVec(Cube4(Quads[1][1], Quads[1][2], Quads[1][3], Quads[1][4]))
    /\ s = <<Zero, Half, One, Half>>
    /\ y = Array(<<R(1), Rnd(7 * Scale, 2), R(6), Rnd(15 * Scale, 2)>>)

\* The five canonical parameters of a circle.
Canonical == {Zero, Quarter, Half, ThreeQuarters, One}

\* The value of the expression with cos and sin at the parameter t.
TrigValue(c, t) ==
    Array(<<Add(c.center[1], Mul(c.radius, CosTurn(t))),
            Add(c.center[2], Mul(c.radius, SinTurn(t)))>>)

\* C15 as stated: for each s in {0, 0.25, 0.5, 0.75, 1.0}, Circle.h returns
\* through a dedicated exact-value branch and never through the cos/sin
\* branch; the trigonometric branch is taken only for other values of s.
C15_FiveSpecialCases ==
    (hom.tag = "Circle" /\ op = "h") =>
        (s \in Canonical <=> Circle_branch(hom, s) # "trig")

\* C15, amended: Circle.h returns through a dedicated exact-value branch for
\* each s in {0.25, 0.5, 0.75, 1.0}; for every other s, s = 0 included, it
\* returns through the cos/sin branch, which at s = 0 gives the exact point
\* [cx + r, cy] all the same.
C15_FourSpecialCases ==
    (hom.tag = "Circle" /\ op = "h") =>
        /\ s \in Canonical \ {Zero} <=> Circle_branch(hom, s) # "trig"
        /\ s = One =>
                /\ Circle_branch(hom, s) = "1.0"
                /\ y = Array(<<Add(hom.center[1], hom.radius), hom.center[2]>>)
        /\ s = Half =>
                /\ Circle_branch(hom, s) = "0.5"
                /\ y = Array(<<Sub(hom.center[1], hom.radius), hom.center[2]>>)
        /\ s = Quarter =>
                /\ Circle_branch(hom, s) = "0.25"
                /\ y = Array(<<hom.center[1], Add(hom.center[2], hom.radius)>>)
        /\ s = ThreeQuarters =>
                /\ Circle_branch(hom, s) = "0.75"
                /\ y = Array(<<hom.center[1], Sub(hom.center[2], hom.radius)>>)
        /\ s \notin Canonical \ {Zero} => y = TrigValue(hom, s)
        /\ s = Zero =>
                /\ Circle_branch(hom, s) = "trig"
                /\ y = Array(<<Add(hom.center[1], hom.radius), hom.center[2]>>)

\* A circle has been evaluated at 0 through the cos/sin branch and gave the
\* exact start point.
C15_Witness ==
    /\ op = "h"
    /\ hom = Circle(<<R(0), R(1)>>, R(2))
    /\ s = Zero
    /\ Circle_branch(hom, s) = "trig"
    /\ y = Array(<<R(2), R(1)>>)

\* Lerp(3, 10) followed by the step from x - 2 to x + 2.
LineThenStep == Compose(Lerp(R(3), R(10)), DiracFrom("sub2", "add2"))

\* C16: the two-branch step is a step at exactly 0: DiracFrom(f, g).h(x, s) is
\* f(x) only when s = 0 and g(x) for every other s, however close to 0, and
\* Dirac gives 1 only at s = 0 and 0 elsewhere.  Hence for
\* Compose(A, DiracFrom(f, g)) with a 1-axis homotopy A, h(x, [s0, s1]) is
\* f(A.h(x, s0)) when s1 = 0 and g(A.h(x, s0)) otherwise, and its diagonal at
\* s is f(A.f(x)) at s = 0 and g(A.h(x, s)) for every s # 0.
C16_StepAtZero ==
    /\ (hom.tag = "DiracFrom" /\ op = "h") =>
            y = IF s = Zero THEN Call(hom.fx, x) ELSE Call(hom.gx, x)
    /\ (hom.tag = "Dirac" /\ op = "h") => y = IF s = Zero THEN R(1) ELSE R(0)
    /\ (hom.tag = "Compose" /\ hom.b.tag = "DiracFrom" /\ Dim(hom.a) = 1 /\ op = "h") =>
            y = IF s[2] = Zero THEN Call(hom.b.fx, h(hom.a, x, s[1]))
                ELSE Call(hom.b.gx, h(hom.a, x, s[1]))
    /\ (/\ hom.tag = "Diagonal"
        /\ hom.inner.tag = "Compose"
        /\ hom.inner.b.tag = "DiracFrom"
        /\ Dim(hom.inner.a) = 1
        /\ op = "h") =>
            LET A == hom.inner.a
                B == hom.inner.b
            IN  /\ s = Zero => y = Call(B.fx, h(A, x, Zero))
                /\ (s = Zero /\ check(A, x)) => y = Call(B.fx, f(A, x))
                /\ s # Zero => y = Call(B.gx, h(A, x, s))
    /\ (hom = LineThenStep /\ op = "h") =>
            /\ s = <<Zero, Zero>> => y = R(1)
            /\ s = <<Half, Zero>> => y = Rnd(9 * Scale, 2)
            /\ s = <<One, Zero>> => y = R(8)
            /\ s = <<Zero, One>> => y = R(5)
            /\ s = <<Half, One>> => y = Rnd(17 * Scale, 2)
            /\ s = <<One, One>> => y = R(12)
    /\ (hom = Diagonal(LineThenStep) /\ op = "h") =>
            /\ s = Zero => y = R(1)
            /\ s = Half => y = Rnd(17 * Scale, 2)
            /\ s = One => y = R(12)

\* The diagonal of Lerp(3, 10) followed by the step has been evaluated at the
\* smallest positive parameter and gave the g branch.
C16_Witness ==
    /\ op = "h"
    /\ hom = Diagonal(LineThenStep)
    /\ s = Tiny
    /\ s # Zero
    /\ y = Call("add2", h(Lerp(R(3), R(10)), x, Tiny))
    /\ y # Call("sub2", h(Lerp(R(3), R(10)), x, Tiny))

\* C17: the default-input checkers are the plain checkers at the default
\* input: for N = 1, 2, 3, 4 and every homotopy H whose input type has the
\* default value d, checku, checku2, checku3, checku4 return on H the boolean
\* that check, check2, check3, check4 return on H and d, and likewise on every
\* face they check.
C17_DefaultInputCheckers ==
    op = "checku" =>
        LET N == Dim(hom)
            d == Default(XType(hom))
        IN  /\ x = d
            /\ d \in Dom(XType(hom))
            /\ y = checkN(hom, d)
            /\ N >= 2 => \A i \in 1..(2 * N) :
                    checkuN(Side(SideNames[i], hom)) = checkN(Side(SideNames[i], hom), d)

\* checku4 has returned true on a Cube4 whose first input is a number, at the
\* default input (0.0, (), (), ()).
C17_Witness ==
    /\ op = "checku"
    /\ hom = Cube4(Quads[2][1], Quads[2][2], Quads[2][3], Quads[2][4])
    /\ x = Tuple(<<R(0), Unit, Unit, Unit>>)
    /\ y = TRUE

\* C18: the faces of one homotopy agree where they meet: for a 2-axis H,
\* left.f = top.f = H.h(x, [0,0]), left.g = bottom.f = H.h(x, [0,1]),
\* top.g = right.f = H.h(x, [1,0]), right.g = bottom.g = H.h(x, [1,1]); and for
\* N = 2, 3, 4, two different faces of H evaluated at parameters that denote
\* the same point of H's parameter cube return the same value.
C18_FacesAgree ==
    IsSide(hom) =>
        LET H == hom.inner
            N == Dim(H)
            Point(name, t) == InsertAxis(N, t, FaceAxis(name), FaceValue(name))
            Corner(a, b) == h(H, x, <<a, b>>)
        IN  /\ (N = 2 /\ op = "f" /\ hom.tag = "Left") =>
                    y = Corner(Zero, Zero) /\ y = f(Side("Top", H), x)
            /\ (N = 2 /\ op = "f" /\ hom.tag = "Top") =>
                    y = Corner(Zero, Zero) /\ y = f(Side("Left", H), x)
            /\ (N = 2 /\ op = "g" /\ hom.tag = "Left") =>
                    y = Corner(Zero, One) /\ y = f(Side("Bottom", H), x)
            /\ (N = 2 /\ op = "f" /\ hom.tag = "Bottom") =>
                    y = Corner(Zero, One) /\ y = g(Side("Left", H), x)
            /\ (N = 2 /\ op = "g" /\ hom.tag = "Top") =>
                    y = Corner(One, Zero) /\ y = f(Side("Right", H), x)
            /\ (N = 2 /\ op = "f" /\ hom.tag = "Right") =>
                    y = Corner(One, Zero) /\ y = g(Side("Top", H), x)
            /\ (N = 2 /\ op = "g" /\ hom.tag = "Right") =>
                    y = Corner(One, One) /\ y = g(Side("Bottom", H), x)
            /\ (N = 2 /\ op = "g" /\ hom.tag = "Bottom") =>
                    y = Corner(One, One) /\ y = g(Side("Right", H), x)
            /\ op = "h" =>
                    \A i \in 1..(2 * N), t \in Params(N - 1) :
                        (/\ SideNames[i] # hom.tag
                         /\ Point(SideNames[i], t) = Point(hom.tag, s)) =>
                            h(Side(SideNames[i], H), x, t) = y

\* The left face of Square(Lerp(1, 5), Lerp(11, 15)) has returned at its end
\* the corner [0, 1] of the square, where it meets the bottom face.
C18_Witness ==
    /\ op = "g"
    /\ hom = Side("Left", Square(Lerps[2], Lerps[4]))
    /\ y = Tuple(<<R(1), R(15)>>)
    /\ y = f(Side("Bottom", hom.inner), x)

====
